---- MODULE Spec2Model ----
(***************************************************************************)
(* A model of go-mergetyp: Gen walks the reflect description of a root     *)
(* type and returns a closure that merges a right value into a left value. *)
(*                                                                         *)
(* Type descriptors are entries of the table Types, keyed by the Go        *)
(* spelling of the type.  A generated closure (mergeF) is a record, the    *)
(* "plan", that names the closure's code and its captured variables; Exec  *)
(* runs a plan against a heap of Go objects.  A string is a sequence of    *)
(* tokens: a field name (which cannot contain '>') is one token and the    *)
(* byte '>' is the token ">".                                              *)
(***************************************************************************)
EXTENDS Integers, Sequences, FiniteSets, TLC

\* Longest slice an input value holds at the top level of a value.
MaxLen == 2

\* Largest key an input map holds at the top level of a value.
MaxKeys == 2

\* Longest option list passed to Gen.
MaxOptions == 2

\* Deepest nesting of genStruct calls the call stack of Gen holds.
MaxStack == 4

\* Most calls of the generated function on one pair of arguments.
MaxCalls == 2

----------------------------------------------------------------------------
(* reflect.Type: kind, element type, array length, fields, PkgPath, Name.  *)

T(kind, elem, len, fields, pkg, name) ==
  [kind |-> kind, elem |-> elem, len |-> len, fields |-> fields, pkg |-> pkg, name |-> name]

PrimT(kind, name) == T(kind, "", 0, <<>>, "", name)

PtrT(e) == T("Ptr", e, 0, <<>>, "", "")

SliceT(e) == T("Slice", e, 0, <<>>, "", "")

ArrayT(n, e) == T("Array", e, n, <<>>, "", "")

MapT(e) == T("Map", e, 0, <<>>, "", "")

StructT(name, fields) == T("Struct", "", 0, fields, "mergetyp", name)

\* A struct type literal: it has neither a package path nor a name.
AnonT(fields) == T("Struct", "", 0, fields, "", "")

Fld(name, typ) == [name |-> name, typ |-> typ]

PrimTypes ==
  ("bool" :> PrimT("Bool", "bool")) @@ ("int" :> PrimT("Int", "int"))
  @@ ("int8" :> PrimT("Int8", "int8")) @@ ("int16" :> PrimT("Int16", "int16"))
  @@ ("int32" :> PrimT("Int32", "int32")) @@ ("int64" :> PrimT("Int64", "int64"))
  @@ ("uint" :> PrimT("Uint", "uint")) @@ ("uint8" :> PrimT("Uint8", "uint8"))
  @@ ("uint16" :> PrimT("Uint16", "uint16")) @@ ("uint32" :> PrimT("Uint32", "uint32"))
  @@ ("uint64" :> PrimT("Uint64", "uint64")) @@ ("uintptr" :> PrimT("Uintptr", "uintptr"))
  @@ ("float32" :> PrimT("Float32", "float32")) @@ ("float64" :> PrimT("Float64", "float64"))
  @@ ("complex64" :> PrimT("Complex64", "complex64"))
  @@ ("complex128" :> PrimT("Complex128", "complex128"))
  @@ ("string" :> PrimT("String", "string"))
  @@ ("chan int" :> PrimT("Chan", ""))
  @@ ("interface{}" :> PrimT("Interface", ""))
  @@ ("func()" :> PrimT("Func", ""))
  @@ ("unsafe.Pointer" :> PrimT("UnsafePointer", "Pointer"))
  @@ ("invalid" :> PrimT("Invalid", ""))

\* The struct types of the tests and of the documentation, and small
\* structs that each hold one kind of field.
StructTypes ==
  ("Nums" :> StructT("Nums", <<Fld("a", "int8"), Fld("b", "uint8"), Fld("c", "bool"), Fld("d", "int16")>>))
  @@ ("S2" :> StructT("S2", <<Fld("F1", "uint64"), Fld("F2", "uint64")>>))
  @@ ("A" :> StructT("A", <<Fld("x", "int64"), Fld("y", "float32"), Fld("z", "bool"), Fld("w", "uintptr")>>))
  @@ ("foo" :> StructT("foo", <<Fld("o", "int"), Fld("t", "int")>>))
  @@ ("W" :> StructT("W", <<Fld("a", "int8"), Fld("b", "int")>>))
  @@ ("SL" :> StructT("SL", <<Fld("f5", "[]foo")>>))
  @@ ("SP" :> StructT("SP", <<Fld("s", "[]int8")>>))
  @@ ("SB" :> StructT("SB", <<Fld("bs", "[]bool")>>))
  @@ ("AR" :> StructT("AR", <<Fld("f6", "[2]int"), Fld("g", "[1]foo")>>))
  @@ ("PT" :> StructT("PT", <<Fld("f7", "*int"), Fld("q", "*foo")>>))
  @@ ("SS" :> StructT("SS", <<Fld("ps", "[]*int")>>))
  @@ ("Bar" :> StructT("Bar", <<Fld("Baz", "chan int")>>))
  @@ ("foobar" :> StructT("foobar", <<Fld("bar", "[]Bar")>>))
  @@ ("MyType" :> StructT("MyType", <<Fld("Foo", "foobar"), Fld("p", "int")>>))
  @@ ("Leaf" :> StructT("Leaf", <<Fld("baz", "interface{}"), Fld("k", "int32")>>))
  @@ ("Inner" :> StructT("Inner", <<Fld("bar", "[]Leaf")>>))
  @@ ("Outer" :> StructT("Outer", <<Fld("foo", "Inner")>>))
  @@ ("Thru" :> StructT("Thru", <<Fld("pl", "*Leaf"), Fld("al", "[1]Leaf")>>))
  @@ ("Junk" :> StructT("Junk", <<Fld("s", "string"), Fld("fn", "func()"), Fld("u", "unsafe.Pointer"),
                                   Fld("k", "int8")>>))
  @@ ("JM" :> StructT("JM", <<Fld("m", "map[int]int"), Fld("k", "int8")>>))
  @@ ("M1" :> StructT("M1", <<Fld("m", "map[int]int")>>))
  @@ ("M2" :> StructT("M2", <<Fld("m", "map[int]map[int]int")>>))
  @@ ("M3" :> StructT("M3", <<Fld("m2", "map[int]*int")>>))
  @@ ("M4" :> StructT("M4", <<Fld("m3", "map[int][]int8")>>))
  @@ ("M5" :> StructT("M5", <<Fld("m4", "map[int]foo")>>))
  @@ ("M6" :> StructT("M6", <<Fld("m5", "map[int][2]*int")>>))
  @@ ("HS" :> StructT("HS", <<Fld("h", "string"), Fld("n", "int8")>>))
  @@ ("HP" :> StructT("HP", <<Fld("hp", "*string")>>))
  @@ ("HA" :> StructT("HA", <<Fld("ha", "[2]func()")>>))
  @@ ("HL" :> StructT("HL", <<Fld("hl", "[]unsafe.Pointer")>>))
  @@ ("HM" :> StructT("HM", <<Fld("hm", "map[int]chan int")>>))
  @@ ("struct{x int8}" :> AnonT(<<Fld("x", "int8")>>))
  @@ ("struct{c chan int}" :> AnonT(<<Fld("c", "chan int")>>))
  @@ ("HU" :> StructT("HU", <<Fld("a", "struct{x int8}"), Fld("b", "struct{c chan int}")>>))
  @@ ("struct{m map[int]int}" :> AnonT(<<Fld("m", "map[int]int")>>))
  @@ ("R" :> StructT("R", <<Fld("n", "int8"), Fld("next", "*R")>>))
  @@ ("RS" :> StructT("RS", <<Fld("v", "bool"), Fld("kids", "[]RS")>>))
  @@ ("RM" :> StructT("RM", <<Fld("k", "uint32"), Fld("rm", "map[int]RM")>>))
  @@ ("Z" :> StructT("Z", <<>>)) @@ ("Za" :> StructT("Za", <<>>))
  @@ ("Zb" :> StructT("Zb", <<>>)) @@ ("Zc" :> StructT("Zc", <<>>))
  @@ ("ZZ" :> StructT("ZZ", <<Fld("a", "Z"), Fld("b", "Z")>>))
  @@ ("EC" :> StructT("EC", <<Fld("p", "*Za"), Fld("ar", "[1]Zb"), Fld("s", "[]Zc")>>))
  @@ ("PB" :> StructT("PB", <<Fld("pb", "*bool"), Fld("ab", "[1]bool")>>))
  @@ ("MB" :> StructT("MB", <<Fld("mb", "map[int]bool")>>))
  @@ ("MZ" :> StructT("MZ", <<Fld("mz", "map[int]Z")>>))
  @@ ("HV" :> StructT("HV", <<Fld("a", "struct{x int8}"), Fld("b", "struct{m map[int]int}")>>))

ContainerTypes ==
  ("[]foo" :> SliceT("foo")) @@ ("[]int8" :> SliceT("int8")) @@ ("[]bool" :> SliceT("bool"))
  @@ ("[]*int" :> SliceT("*int")) @@ ("[]Bar" :> SliceT("Bar")) @@ ("[]Leaf" :> SliceT("Leaf"))
  @@ ("[]unsafe.Pointer" :> SliceT("unsafe.Pointer"))
  @@ ("[2]int" :> ArrayT(2, "int")) @@ ("[1]foo" :> ArrayT(1, "foo"))
  @@ ("[1]Leaf" :> ArrayT(1, "Leaf")) @@ ("[2]*int" :> ArrayT(2, "*int"))
  @@ ("[2]func()" :> ArrayT(2, "func()"))
  @@ ("*int" :> PtrT("int")) @@ ("*foo" :> PtrT("foo")) @@ ("*Leaf" :> PtrT("Leaf"))
  @@ ("*string" :> PtrT("string"))
  @@ ("map[int]int" :> MapT("int")) @@ ("map[int]map[int]int" :> MapT("map[int]int"))
  @@ ("map[int]*int" :> MapT("*int")) @@ ("map[int][]int8" :> MapT("[]int8"))
  @@ ("map[int]foo" :> MapT("foo")) @@ ("map[int][2]*int" :> MapT("[2]*int"))
  @@ ("map[int]chan int" :> MapT("chan int"))
  @@ ("*Za" :> PtrT("Za")) @@ ("[1]Zb" :> ArrayT(1, "Zb")) @@ ("[]Zc" :> SliceT("Zc"))
  @@ ("*bool" :> PtrT("bool")) @@ ("[1]bool" :> ArrayT(1, "bool"))
  @@ ("map[int]bool" :> MapT("bool")) @@ ("map[int]Z" :> MapT("Z"))
  @@ ("*R" :> PtrT("R")) @@ ("[]RS" :> SliceT("RS")) @@ ("map[int]RM" :> MapT("RM"))

\* The types a test passes to Gen by pointer.
RootElems ==
  {"Nums", "S2", "A", "foo", "SL", "SP", "SB", "AR", "PT", "SS", "MyType", "Outer", "Thru", "Junk",
   "JM", "M1", "M2", "M3", "M4", "M5", "M6", "HS", "HP", "HA", "HL", "HM", "HU", "HV", "R", "RS", "RM", "ZZ", "EC", "PB", "MB", "MZ", "W", "int8"}

PtrName(e) == "*" \o e

RootTypes ==
  [n \in {PtrName(e) : e \in RootElems} \cup {"**S2"} |->
     IF n = "**S2" THEN PtrT("*S2") ELSE PtrT(CHOOSE e \in RootElems : PtrName(e) = n)]

Types == PrimTypes @@ StructTypes @@ ContainerTypes @@ RootTypes

----------------------------------------------------------------------------
(* The generator (gen.go).                                                 *)

\* The nil mergeF: what gen returns for "nothing to merge", and what a
\* freshly allocated *mergeF holds.
NilF == [k |-> "nil"]

\* (f, err) as returned by gen, with the structFs map the call leaves behind
\* (the map is shared by reference between all generators of one Gen call).
Ok(fs, f) == [f |-> f, err |-> "", fs |-> fs]

Fail(fs, msg) == [f |-> NilF, err |-> msg, fs |-> fs]

\* The kinds gen refuses.
Unmergeable == {"Interface", "Chan", "Func", "String", "UnsafePointer", "Invalid"}

ErrKind(kind) ==
  CASE kind = "Interface" -> "it is impossible to merge two types that are interfaces"
    [] kind = "Chan" -> "unable to merge channels"
    [] kind = "Func" -> "unable to merge functions"
    [] kind = "String" -> "unable to merge strings"
    [] kind = "UnsafePointer" -> "unable to merge unsafe pointers"
    [] kind = "Invalid" -> "unable to merge an invalid type"

\* The kinds genStruct, genArray and genSlice special-case, in the order
\* the struct closure runs over their offset lists.
StructPrims ==
  <<"Bool", "Int", "Int8", "Int16", "Int32", "Int64", "Uint", "Uint8", "Uint16", "Uint32",
    "Uint64", "Float32", "Float64", "Complex64", "Complex128">>

Range(s) == {s[i] : i \in DOMAIN s}

\* The kinds gen returns a primitive closure for.
GenPrims == Range(StructPrims) \cup {"Uintptr"}

\* strings.IndexByte(s, '>'), 1-based; 0 when the byte does not occur.
IndexByte(s) ==
  IF \E i \in DOMAIN s : s[i] = ">" THEN CHOOSE i \in DOMAIN s : s[i] = ">" /\ \A j \in 1..(i - 1) : s[j] # ">"
  ELSE 0

\* A lookup that finds nothing: the residual paths are lost on the way down.
LookupNone(m, k) == <<>>

\* m[k] of a Go map of slices: the nil slice when k is absent.
Lookup(m, k) == IF k \in DOMAIN m THEN m[k] ELSE <<>>

\* delete(m, k)
Delete(m, k) == [x \in DOMAIN m \ {k} |-> m[x]]

\* A loop over g.skips that records nothing.
parseNoSkips(skips, i, acc) == acc

\* The loop of genStruct over g.skips: skipMyLevel is a set of strings,
\* skipNextLevel maps a string to the list of residual strings.
RECURSIVE parseSkips(_, _, _)
parseSkips(skips, i, acc) ==
  IF i > Len(skips) THEN acc
  ELSE LET skip == skips[i]
           idx == IndexByte(skip)
           field == SubSeq(skip, 1, idx - 1)
           subFields == SubSeq(skip, idx + 1, Len(skip))
       IN IF idx = 0
          THEN parseSkips(skips, i + 1, [acc EXCEPT !.my = @ \cup {skip}])
          ELSE IF idx = 1 \/ Len(skip) < idx
          THEN [acc EXCEPT !.err = "invalid skip: empty field name"]
          ELSE parseSkips(skips, i + 1,
                 [acc EXCEPT !.next = (field :> Append(Lookup(@, field), subFields)) @@ @])

RECURSIVE gen(_, _)
RECURSIVE genMap(_, _)
RECURSIVE genArray(_, _)
RECURSIVE genSlice(_, _)
RECURSIVE genStruct(_, _)
RECURSIVE genFields(_, _, _, _)

\* The name gen keys structFs by.
StructName(typ) == typ.pkg \o "." \o typ.name

\* The fatal error of the Go runtime when the recursion of gen outgrows the
\* stack.
StackOverflow == "goroutine stack exceeds limit"

\* A lookup in structFs that never finds a slot.
existsNever(structFs, name) == FALSE

\* pf, exists := g.structFs[name]
exists(structFs, name) == name \in DOMAIN structFs

\* What gen's Ptr case does with the (f, err) of the element.
ptrClosure(r) ==
  IF r.err # "" THEN r
  ELSE IF r.f.k = "nil" THEN Ok(r.fs, NilF)
  ELSE Ok(r.fs, [k |-> "ptr", f |-> r.f])

\* What gen's Struct case does with the (f, err) of genStruct: *pf = f.
fillSlot(name, r) ==
  IF r.err # "" THEN r ELSE Ok([r.fs EXCEPT ![name] = r.f], r.f)

\* gen: g is the generator (structFs, useMap, skips), v the type of the
\* reflected value.  g.stack is the number of genStruct calls on the call
\* stack: a recursion that does not end overflows the stack.
gen(g, v) ==
  LET typ == Types[v]
      kind == typ.kind
      name == StructName(typ)
  IN IF g.stack > MaxStack THEN Fail(g.structFs, StackOverflow)
     ELSE IF Len(g.skips) > 0 /\ kind \notin {"Slice", "Struct", "Array", "Ptr"}
     THEN Fail(g.structFs, "unable to skip fields on kind")
     ELSE IF kind \in Unmergeable THEN Fail(g.structFs, ErrKind(kind))
     ELSE IF kind \in GenPrims THEN Ok(g.structFs, [k |-> "prim", kind |-> kind])
     ELSE IF kind = "Ptr" THEN ptrClosure(gen(g, typ.elem))
     ELSE IF kind = "Array" THEN genArray(g, v)
     ELSE IF kind = "Slice" THEN genSlice(g, v)
     ELSE IF kind = "Struct"
     THEN IF Len(g.skips) = 0 /\ exists(g.structFs, name)
          THEN Ok(g.structFs, [k |-> "thunk", pf |-> name, typ |-> v])
          ELSE genStruct(g, v)
     ELSE IF ~g.useMap THEN Fail(g.structFs, "unable to merge maps")
     ELSE genMap(g, v)

\* The closure of genMap around the (f, err) of the value type.
mapClosure(r, valNeedsIndir) ==
  IF r.err # "" THEN r
  ELSE Ok(r.fs, [k |-> "map", f |-> r.f, valNeedsIndir |-> valNeedsIndir])

genMap(g, v) ==
  LET et == Types[v].elem
      etk == Types[et].kind
  IN mapClosure(gen(g, et), etk = "Map" \/ etk = "Ptr")

\* The default case of genArray around the (f, err) of the element type.
arrayClosure(r, len) ==
  IF r.err # "" THEN r
  ELSE IF r.f.k = "nil" THEN Ok(r.fs, NilF)
  ELSE Ok(r.fs, [k |-> "array", len |-> len, f |-> r.f])

genArray(g, v) ==
  LET len == Types[v].len
      et == Types[v].elem
      etk == Types[et].kind
  IN IF etk \in Range(StructPrims)
     THEN Ok(g.structFs, [k |-> "arrayPrim", kind |-> etk, len |-> len])
     ELSE arrayClosure(gen(g, et), len)

\* The default case of genSlice around the (f, err) of the element type.
sliceClosure(r) ==
  IF r.err # "" THEN r
  ELSE IF r.f.k = "nil" THEN Ok(r.fs, NilF)
  ELSE Ok(r.fs, [k |-> "slice", f |-> r.f])

genSlice(g, v) ==
  LET et == Types[v].elem
      etk == Types[et].kind
  IN IF etk \in Range(StructPrims)
     THEN Ok(g.structFs, [k |-> "slicePrim", kind |-> etk])
     ELSE sliceClosure(gen(g, et))

\* The default case of the field switch, once gen has returned r for the
\* field at offset i: acc is the state of genStruct's loop.
addField(acc, i, sfName, r) ==
  LET next == Delete(acc.next, sfName)
  IN IF r.err # "" THEN [acc EXCEPT !.err = r.err]
     ELSE IF r.f.k = "nil" THEN [acc EXCEPT !.fs = r.fs, !.next = next]
     ELSE [acc EXCEPT !.fs = r.fs, !.next = next, !.added = @ + 1,
                      !.offsetFs = Append(@, [offset |-> i, f |-> r.f])]

\* The loop of genStruct over the fields, from field i on; it ends at the
\* first error.  A field's offset is its index.
genFields(g, v, i, acc) ==
  LET fields == Types[v].fields
      sf == fields[i]
      sfName == <<sf.name>>
      sfKind == Types[sf.typ].kind
  IN IF i > Len(fields) \/ acc.err # "" THEN acc
     ELSE genFields(g, v, i + 1,
            IF sfName \in acc.my THEN [acc EXCEPT !.my = @ \ {sfName}]
            ELSE IF sfKind \in Range(StructPrims)
            THEN [acc EXCEPT !.prims[sfKind] = Append(@, i), !.added = @ + 1]
            ELSE addField(acc, i, sfName,
                   gen([structFs |-> acc.fs, useMap |-> g.useMap,
                        skips |-> Lookup(acc.next, sfName), stack |-> g.stack + 1], sf.typ)))

\* genStruct after its loop over the fields.  The closure is labelled with
\* the type and the skips of the genStruct call that built it.
structClosure(acc) ==
  IF acc.err # "" THEN Fail(acc.fs, acc.err)
  ELSE IF acc.my # {}
  THEN Fail(acc.fs, "did not see all fields that we were required to skip")
  ELSE IF DOMAIN acc.next # {}
  THEN Fail(acc.fs, "did not see all fields names for next level skips")
  ELSE IF acc.added = 0 THEN Ok(acc.fs, NilF)
  ELSE Ok(acc.fs, [k |-> "struct", prims |-> acc.prims, offsetFs |-> acc.offsetFs,
                   typ |-> acc.typ, skips |-> acc.skips])

\* genStruct once the skips are parsed.
genParsed(g, v, parsed) ==
  IF parsed.err # "" THEN Fail(g.structFs, parsed.err)
  ELSE structClosure(genFields(g, v, 1,
         [my |-> parsed.my, next |-> parsed.next, err |-> "", fs |-> g.structFs,
          prims |-> [kind \in Range(StructPrims) |-> <<>>], offsetFs |-> <<>>, added |-> 0,
          typ |-> v, skips |-> g.skips]))

\* genStruct, with gen's bookkeeping of structFs around it when the
\* generator has no skips: the slot is allocated before and filled after.
genStruct(g, v) ==
  LET name == StructName(Types[v])
      parsed == parseSkips(g.skips, 1, [my |-> {}, next |-> <<>>, err |-> ""])
  IN IF Len(g.skips) > 0 THEN genParsed(g, v, parsed)
     ELSE fillSlot(name, genParsed([g EXCEPT !.structFs = (name :> NilF) @@ @], v, parsed))

----------------------------------------------------------------------------
(* Memory.  The heap is a sequence of objects and an address is an index   *)
(* into it (0 is nil).  A word of memory holds a number or a boolean, a    *)
(* pointer or a map (an address), a slice header, or a tuple of words (a   *)
(* struct or an array).  A map object is a function from keys to words.    *)
(* An unsafe.Pointer is a location: an object and a path of offsets into   *)
(* it.                                                                     *)

Loc(a) == [a |-> a, p |-> <<>>]

\* fieldByOffset(u, o)
fieldByOffset(u, o) == [u EXCEPT !.p = Append(@, o)]

RECURSIVE Walk(_, _)
Walk(obj, p) == IF p = <<>> THEN obj ELSE Walk(obj[Head(p)], Tail(p))

RECURSIVE Patch(_, _, _)
Patch(obj, p, w) ==
  IF p = <<>> THEN w ELSE [obj EXCEPT ![Head(p)] = Patch(@, Tail(p), w)]

\* *(*T)(u)
Load(h, u) == Walk(h[u.a], u.p)

\* *(*T)(u) = w
Store(h, u, w) == [h EXCEPT ![u.a] = Patch(@, u.p, w)]

\* The width in bits of the integer kinds whose sums the model wraps.  The
\* wider kinds are added exactly: their input values (Dom) are small, and
\* Go's addition does not wrap on them either.
Bits(kind) ==
  CASE kind \in {"Int8", "Uint8"} -> 8
    [] kind \in {"Int16", "Uint16"} -> 16
    [] OTHER -> 0

Signed(kind) == kind \in {"Int", "Int8", "Int16", "Int32", "Int64"}

\* An addition that stops at the ends of the range of the 8 and 16 bit kinds
\* where Go's wraps around.
AddSaturating(kind, a, b) ==
  LET m == 2 ^ Bits(kind)
      lo == IF Signed(kind) THEN 0 - (m \div 2) ELSE 0
      hi == lo + m - 1
  IN IF kind \in {"Complex64", "Complex128"} THEN <<a[1] + b[1], a[2] + b[2]>>
     ELSE IF Bits(kind) = 0 THEN a + b
     ELSE IF a + b > hi THEN hi
     ELSE IF a + b < lo THEN lo
     ELSE a + b

\* An addition that yields its left operand.
AddLeft(kind, a, b) == a

\* l + r of Go for the kind.
Add(kind, a, b) ==
  LET m == 2 ^ Bits(kind)
  IN IF kind \in {"Complex64", "Complex128"} THEN <<a[1] + b[1], a[2] + b[2]>>
     ELSE IF Bits(kind) = 0 THEN a + b
     ELSE IF Signed(kind) THEN ((a + b + (m \div 2)) % m) - (m \div 2)
     ELSE (a + b) % m

\* A primitive closure that assigns the right value to the left.
CombineCopy(kind, h, l, r) == Store(h, l, Load(h, r))

\* The body of a primitive closure on two locations.
Combine(kind, h, l, r) ==
  IF kind = "Bool"
  THEN IF Load(h, r) THEN Store(h, l, TRUE) ELSE h
  ELSE Store(h, l, Add(kind, Load(h, l), Load(h, r)))

\* The keys of a map in the order a range over rv.MapKeys() meets them: Go
\* leaves the order open, the model takes ascending or descending.
RECURSIVE MapKeys(_, _)
MapKeys(ks, rev) ==
  IF ks = {} THEN <<>>
  ELSE LET k == IF rev THEN CHOOSE x \in ks : \A y \in ks : y <= x
                ELSE CHOOSE x \in ks : \A y \in ks : x <= y
       IN <<k>> \o MapKeys(ks \ {k}, rev)

\* The keys of the map at address m (none for the nil map).
KeysOf(h, m) == IF m = 0 THEN {} ELSE DOMAIN h[m]

\* The panic of a running closure: the heap stays as it is at that point.
Panic(st) == [st EXCEPT !.ok = FALSE]

\* A nil-left case that copies the right pointer and leaves it in place.
ptrCopy(h, pl, pr) == Store(h, pl, Load(h, pr))

\* The nil-left case of the pointer closure: *pl = ir; *pr = nil.
ptrTake(h, pl, pr) == Store(Store(h, pl, Load(h, pr)), pr, 0)

\* A normalize that leaves the headers where they are.
normalizeNoSwap(h, l, r) ==
  [h |-> h, limit |-> IF Load(h, r).len < Load(h, l).len THEN Load(h, r).len ELSE Load(h, l).len]

\* normalize(l, r) of genSlice: the heap after the two headers are swapped
\* when the right is longer, and the number of elements both sides have.
normalize(h, l, r) ==
  LET hl == Load(h, l)
      hr == Load(h, r)
  IN [h |-> IF hr.len > hl.len THEN Store(Store(h, l, hr), r, hl) ELSE h,
      limit |-> IF hr.len < hl.len THEN hr.len ELSE hl.len]

RECURSIVE Exec(_, _, _, _, _)
RECURSIVE ExecElems(_, _, _, _, _, _, _)
RECURSIVE ExecOffsets(_, _, _, _, _, _)
RECURSIVE ExecPrims(_, _, _, _, _)
RECURSIVE ExecOffsetFs(_, _, _, _, _, _)
RECURSIVE ExecMapKeys(_, _, _, _, _, _)

\* for offset := 0; offset < end; offset += size { f(l+offset, r+offset) },
\* from element i to element n.
ExecElems(e, f, st, l, r, i, n) ==
  IF i > n \/ ~st.ok THEN st
  ELSE ExecElems(e, f, Exec(e, f, st, fieldByOffset(l, i), fieldByOffset(r, i)), l, r, i + 1, n)

\* for _, offset := range offsets { combine the kind at l+offset, r+offset }
ExecOffsets(kind, offsets, i, h, l, r) ==
  IF i > Len(offsets) THEN h
  ELSE ExecOffsets(kind, offsets, i + 1,
         Combine(kind, h, fieldByOffset(l, offsets[i]), fieldByOffset(r, offsets[i])), l, r)

\* The fifteen loops of the struct closure, from the i-th kind on.
ExecPrims(prims, i, h, l, r) ==
  IF i > Len(StructPrims) THEN h
  ELSE ExecPrims(prims, i + 1, ExecOffsets(StructPrims[i], prims[StructPrims[i]], 1, h, l, r), l, r)

\* for _, of := range offsetFs { of.f(l+of.offset, r+of.offset) }
ExecOffsetFs(e, offsetFs, i, st, l, r) ==
  IF i > Len(offsetFs) \/ ~st.ok THEN st
  ELSE ExecOffsetFs(e, offsetFs, i + 1,
         Exec(e, offsetFs[i].f, st, fieldByOffset(l, offsetFs[i].offset),
              fieldByOffset(r, offsetFs[i].offset)), l, r)

\* The loop of the map closure over rks, from the i-th key on.  lm and rm
\* are the two maps.  lkvi and rkvi are interfaces made of copies of the two
\* values: each copy is a fresh object, and f runs on the two copies (on the
\* interface's data word when valNeedsIndir, on what it points to when not).
ExecMapKeys(e, f, st, lm, rm, rks) ==
  IF rks = <<>> \/ ~st.ok THEN st
  ELSE LET rk == Head(rks)
           h == st.h
       IN IF rk \notin KeysOf(h, lm)
          THEN IF lm = 0
               THEN Panic(st)
               ELSE ExecMapKeys(e, f,
                      [st EXCEPT !.h = [h EXCEPT ![lm] = (rk :> h[rm][rk]) @@ @]], lm, rm, Tail(rks))
          ELSE LET lkvi == Len(h) + 1
                   rkvi == Len(h) + 2
                   h1 == h \o <<h[lm][rk], h[rm][rk]>>
                   st2 == Exec(e, f.f, [st EXCEPT !.h = h1], Loc(lkvi), Loc(rkvi))
               IN IF ~st2.ok THEN st2
                  ELSE ExecMapKeys(e, f,
                         [st2 EXCEPT !.h = [st2.h EXCEPT ![lm] = [@ EXCEPT ![rk] = st2.h[lkvi]]]],
                         lm, rm, Tail(rks))

\* A call f(l, r) of the closure f.  e holds what the closures close over
\* (structFs) and the key order of this call (rev); st is the heap and
\* whether the call is still running.
Exec(e, f, st, l, r) ==
  IF ~st.ok THEN st
  ELSE IF f.k = "nil" THEN Panic(st)
  ELSE IF f.k = "prim" THEN [st EXCEPT !.h = Combine(f.kind, st.h, l, r)]
  ELSE IF f.k = "ptr"
  THEN LET il == Load(st.h, l)
           ir == Load(st.h, r)
       IN IF il = 0 THEN [st EXCEPT !.h = ptrTake(st.h, l, r)]
          ELSE IF ir = 0 THEN st
          ELSE Exec(e, f.f, st, Loc(il), Loc(ir))
  ELSE IF f.k = "arrayPrim"
  THEN ExecElems(e, [k |-> "prim", kind |-> f.kind], st, l, r, 1, f.len)
  ELSE IF f.k = "array" THEN ExecElems(e, f.f, st, l, r, 1, f.len)
  ELSE IF f.k \in {"slicePrim", "slice"}
  THEN LET n == normalize(st.h, l, r)
           ef == IF f.k = "slicePrim" THEN [k |-> "prim", kind |-> f.kind] ELSE f.f
       IN ExecElems(e, ef, [st EXCEPT !.h = n.h],
                    Loc(Load(n.h, l).data), Loc(Load(n.h, r).data), 1, n.limit)
  ELSE IF f.k = "struct"
  THEN ExecOffsetFs(e, f.offsetFs, 1, [st EXCEPT !.h = ExecPrims(f.prims, 1, st.h, l, r)], l, r)
  ELSE IF f.k = "thunk" THEN Exec(e, e.fs[f.pf], st, l, r)
  ELSE LET lm == Load(st.h, l)
           rm == Load(st.h, r)
       IN ExecMapKeys(e, f, st, lm, rm, MapKeys(KeysOf(st.h, rm), e.rev))

----------------------------------------------------------------------------
(* The values a caller builds (as the tests do with composite literals).   *)
(* A value is written as a tree: a number or a boolean; a tuple of trees   *)
(* for a struct, an array or a slice; <<>> for a nil pointer or map, <<x>> *)
(* for a pointer to x and <<m>> for a map with entries m.                  *)

\* The values of a primitive field.  The 8 and 16 bit kinds take both ends
\* of their range, so that every sum of two of them wraps.
Dom(kind) ==
  CASE kind = "Bool" -> {FALSE, TRUE}
    [] kind = "Int8" -> {-128, 127}
    [] kind = "Uint8" -> {1, 255}
    [] kind = "Int16" -> {-32768, 32767}
    [] kind = "Uint16" -> {1, 65535}
    [] kind = "Int" -> {5, 6}
    [] kind = "Uint64" -> {1, 3, 7, 9}
    [] kind = "Int64" -> {-3, 7}
    [] kind = "Uint32" -> {3}
    [] kind = "Float32" -> {2, 8}
    [] kind \in {"Complex64", "Complex128"} -> {<<1, 2>>, <<3, 4>>}
    [] kind \in {"String", "Chan", "Interface"} -> {0, 1}
    [] kind \in {"Func", "UnsafePointer", "Invalid"} -> {0}
    [] OTHER -> {1, 4}

\* Inside a slice, a map or a pointer to a composite value, slices and maps
\* hold at most one element and an int or an int32 takes one value; two
\* levels inside, every primitive takes one value, a slice is empty and a
\* pointer or a map is nil (which ends the values of a recursive type).
LenAt(d) == IF d = 0 THEN MaxLen ELSE IF d = 1 THEN 1 ELSE 0

\* The slice type t is the type of a field of its own elements.
SliceOfSelf(t) ==
  /\ Types[Types[t].elem].kind = "Struct"
  /\ \E j \in DOMAIN Types[Types[t].elem].fields : Types[Types[t].elem].fields[j].typ = t

\* The most elements of a slice of type t at depth d: a slice of structs
\* that hold such a slice again is empty inside itself.
LenOf(t, d) == IF d > 0 /\ SliceOfSelf(t) THEN 0 ELSE LenAt(d)

DomAt(kind, d) ==
  IF d = 0 \/ (d = 1 /\ kind \notin {"Int", "Int32"}) THEN Dom(kind)
  ELSE {CHOOSE x \in Dom(kind) : TRUE}

KeysAt(d) == IF d = 0 THEN MaxKeys ELSE 1

RECURSIVE Values(_, _)
RECURSIVE FieldValues(_, _, _)

\* The trees of the fields i.. of a struct, as tuples.
FieldValues(fields, i, d) ==
  IF i > Len(fields) THEN {<<>>}
  ELSE {<<x>> \o rest : x \in Values(fields[i].typ, d), rest \in FieldValues(fields, i + 1, d)}

\* The trees of type t at nesting depth d.
Values(t, d) ==
  LET typ == Types[t]
      kind == typ.kind
  IN IF kind \in {"Ptr", "Map"} /\ d > 1 THEN {<<>>}
     ELSE IF kind = "Ptr"
     THEN {<<>>} \cup {<<x>> : x \in Values(typ.elem, IF Types[typ.elem].kind \in GenPrims
                                                     THEN d ELSE d + 1)}
     ELSE IF kind = "Array" THEN [1..typ.len -> Values(typ.elem, d)]
     ELSE IF kind = "Slice"
     THEN IF LenOf(t, d) = 0 THEN {<<>>}
          ELSE UNION {[1..n -> Values(typ.elem, d + 1)] : n \in 0..LenOf(t, d)}
     ELSE IF kind = "Struct" THEN FieldValues(typ.fields, 1, d)
     ELSE IF kind = "Map"
     THEN {<<>>} \cup {<<m>> : m \in UNION {[ks -> Values(typ.elem, d + 1)] : ks \in SUBSET (1..KeysAt(d))}}
     ELSE DomAt(kind, d)

RECURSIVE Alloc(_, _, _)
RECURSIVE AllocSeq(_, _, _, _, _)
RECURSIVE AllocMap(_, _, _, _, _)

\* Builds the trees xs[i..] (xs[j] of type ts[j]) on heap h; acc holds the
\* words built so far.  Each tree is built before the next one is begun.
AllocSeq(h, ts, xs, i, acc) ==
  IF i > Len(xs) THEN [h |-> h, w |-> acc]
  ELSE CHOOSE res \in {AllocSeq(a.h, ts, xs, i + 1, Append(acc, a.w)) :
                         a \in {Alloc(h, ts[i], xs[i])}} : TRUE

\* Builds the entries of the map tree m for the keys ks.
AllocMap(h, t, m, ks, acc) ==
  IF ks = {} THEN [h |-> h, w |-> acc]
  ELSE LET key == CHOOSE x \in ks : \A y \in ks : x <= y
       IN CHOOSE res \in {AllocMap(a.h, t, m, ks \ {key}, (key :> a.w) @@ acc) :
                          a \in {Alloc(h, t, m[key])}} : TRUE

\* Builds tree x of type t on heap h: the new heap and the word that holds
\* the value.
Alloc(h, t, x) ==
  LET typ == Types[t]
      kind == typ.kind
  IN IF kind = "Ptr"
     THEN IF x = <<>> THEN [h |-> h, w |-> 0]
          ELSE LET a == Alloc(h, typ.elem, x[1])
               IN [h |-> Append(a.h, a.w), w |-> Len(a.h) + 1]
     ELSE IF kind = "Array" THEN AllocSeq(h, [j \in DOMAIN x |-> typ.elem], x, 1, <<>>)
     ELSE IF kind = "Slice"
     THEN IF x = <<>> THEN [h |-> h, w |-> [data |-> 0, len |-> 0]]
          ELSE LET a == AllocSeq(h, [j \in DOMAIN x |-> typ.elem], x, 1, <<>>)
               IN [h |-> Append(a.h, a.w), w |-> [data |-> Len(a.h) + 1, len |-> Len(x)]]
     ELSE IF kind = "Struct"
     THEN AllocSeq(h, [j \in DOMAIN x |-> typ.fields[j].typ], x, 1, <<>>)
     ELSE IF kind = "Map"
     THEN IF x = <<>> THEN [h |-> h, w |-> 0]
          ELSE LET a == AllocMap(h, typ.elem, x[1], DOMAIN x[1], <<>>)
               IN [h |-> Append(a.h, a.w), w |-> Len(a.h) + 1]
     ELSE [h |-> h, w |-> x]

\* The tree that the word w of type t holds on heap h (what
\* reflect.DeepEqual compares).
RECURSIVE Deep(_, _, _)
Deep(h, t, w) ==
  LET typ == Types[t]
      kind == typ.kind
  IN IF kind = "Ptr" THEN IF w = 0 THEN <<>> ELSE <<Deep(h, typ.elem, h[w])>>
     ELSE IF kind = "Array" THEN [j \in DOMAIN w |-> Deep(h, typ.elem, w[j])]
     ELSE IF kind = "Slice"
     THEN [j \in 1..w.len |-> Deep(h, typ.elem, h[w.data][j])]
     ELSE IF kind = "Struct" THEN [j \in DOMAIN w |-> Deep(h, typ.fields[j].typ, w[j])]
     ELSE IF kind = "Map"
     THEN IF w = 0 THEN <<>> ELSE <<[key \in DOMAIN h[w] |-> Deep(h, typ.elem, h[w][key])]>>
     ELSE w

----------------------------------------------------------------------------
(* The public entry point (mergetyp.go).                                   *)

\* An option is the closure an option function returns: op names the
\* function and fields holds the strings it captured.
SkipField(field) == [op |-> "SkipField", fields |-> <<field>>]

SkipFields(fields) == [op |-> "SkipFields", fields |-> fields]

WithSlowerMapsUnsafely == [op |-> "WithSlowerMapsUnsafely", fields |-> <<>>]

\* Running one option closure on the config.
ApplyOption(c, o) ==
  IF o.op = "WithSlowerMapsUnsafely" THEN [c EXCEPT !.unsafeMap = TRUE]
  ELSE [c EXCEPT !.skips = @ \o o.fields]

\* for _, option := range options { option(&c) }
RECURSIVE ApplyOptions(_, _, _)
ApplyOptions(options, n, c) ==
  IF n > Len(options) THEN c ELSE ApplyOptions(options, n + 1, ApplyOption(c, options[n]))

\* check of the returned closure: whether both arguments have the type the
\* function was generated for.
check(typ, l, r) == ~(l.typ # typ \/ r.typ # typ)

\* What Gen returns when it fails with msg.
GenErr(c, msg) == [fn |-> [typ |-> "", f |-> NilF], fs |-> <<>>, c |-> c, err |-> msg]

\* The end of Gen, once the generator has returned r.
GenReturn(iv, c, r) ==
  IF r.err # "" THEN GenErr(c, r.err)
  ELSE [fn |-> [typ |-> iv.typ, f |-> r.f], fs |-> r.fs, c |-> c, err |-> ""]

\* reflect.Indirect(v) of the pointer iv: the type of what it points to, or
\* the invalid Value for a nil pointer.
Indirect(iv) == IF iv.nil THEN "invalid" ELSE Types[iv.typ].elem

\* The first check alone: a pointer to a pointer passes.
rootErrNaked(iv) ==
  IF Types[iv.typ].kind # "Ptr"
  THEN "merge functions can only be generated for pointer types"
  ELSE ""

\* The two checks of Gen on the root: the error, or "" when both pass.
rootErr(iv) ==
  IF Types[iv.typ].kind # "Ptr"
  THEN "merge functions can only be generated for pointer types"
  ELSE IF Types[Indirect(iv)].kind = "Ptr"
  THEN "merge functions can only be generated for single-pointer-indirection types"
  ELSE ""

\* Gen after the options have run on the config c.
GenElem(iv, c) ==
  IF rootErr(iv) # "" THEN GenErr(c, rootErr(iv))
  ELSE GenReturn(iv, c, gen([structFs |-> <<>>, useMap |-> c.unsafeMap, skips |-> c.skips,
                                 stack |-> 0], Indirect(iv)))

\* Gen(i, options...): iv is the interface value i (its dynamic type and
\* whether the pointer it holds is nil).  The result is the returned
\* function (the type word it compares against, and f), the error, and the
\* structFs map that f's thunks dispatch through.
Gen(iv, options) ==
  GenElem(iv, ApplyOptions(options, 1, [skips |-> <<>>, unsafeMap |-> FALSE]))

\* A returned function whose no-op variant does not call check.
ExecutorNoopUnchecked(fnv, fs, h, l, r, rev) ==
  IF fnv.f.k = "nil" THEN [h |-> h, ok |-> TRUE]
  ELSE IF ~check(fnv.typ, l, r) THEN [h |-> h, ok |-> FALSE]
  ELSE Exec([fs |-> fs, rev |-> rev], fnv.f, [h |-> h, ok |-> TRUE], Loc(l.data), Loc(r.data))

\* The function Gen returned, called on the interface values l and r: the
\* heap after the call and whether the call returned (ok) or panicked.
Executor(fnv, fs, h, l, r, rev) ==
  IF ~check(fnv.typ, l, r) THEN [h |-> h, ok |-> FALSE]
  ELSE IF fnv.f.k = "nil" THEN [h |-> h, ok |-> TRUE]
  ELSE Exec([fs |-> fs, rev |-> rev], fnv.f, [h |-> h, ok |-> TRUE], Loc(l.data), Loc(r.data))

----------------------------------------------------------------------------
(* The inputs.                                                             *)

\* The strings the options are given.
Paths ==
  {<<"F1">>, <<"F2">>, <<"a">>, <<"m">>, <<"nope">>, <<"next", ">", "n">>,
   <<"f5", ">", "o">>, <<"Foo", ">", "bar", ">", "Baz">>, <<"foo", ">", "bar", ">", "baz">>,
   <<"s", ">", "x">>, <<"f6", ">", "x">>, <<"a", ">", "nope">>,
   <<">", "s">>, <<"s", ">">>, <<"f5", ">", ">", "o">>}

Options ==
  {SkipField(p) : p \in Paths}
  \cup {SkipFields(<<<<"pl", ">", "baz">>, <<"al", ">", "baz">>>>),
        SkipFields(<<<<"s">>, <<"fn">>, <<"u">>>>),
        WithSlowerMapsUnsafely}

RECURSIVE SeqsUpTo(_, _)
SeqsUpTo(S, n) ==
  IF n = 0 THEN {<<>>}
  ELSE SeqsUpTo(S, n - 1) \cup {Append(q, x) : q \in SeqsUpTo(S, n - 1), x \in S}

OptionLists == SeqsUpTo(Options, MaxOptions)

\* The values passed as i: a pointer to a value of each root type or a nil
\* pointer of that type, a value that is no pointer, and the nil interface.
Roots ==
  {[typ |-> t, nil |-> FALSE] : t \in DOMAIN RootTypes}
  \cup {[typ |-> t, nil |-> TRUE] : t \in {"*S2", "**S2"}}
  \cup {[typ |-> t, nil |-> FALSE] : t \in {"S2", "int8", "[]int8", "map[int]int"}}
  \cup {[typ |-> "invalid", nil |-> TRUE]}

\* A type other than t, for calls with an argument of the wrong type.
Other(t) == IF t = "*foo" THEN "*S2" ELSE "*foo"

\* The values of an argument of type t to a function generated for root.
ArgValues(t, root) ==
  LET all == Values(Types[t].elem, 0)
  IN IF t = root THEN all ELSE {CHOOSE x \in all : TRUE}

----------------------------------------------------------------------------
(* The state machine: a test calls Gen, builds two values and calls the     *)
(* returned function on them, and may call it again on the same two        *)
(* arguments.  Next to each call f(l, r) on a struct of integers and       *)
(* booleans the test makes the call f(r, l) on a copy of the same memory.  *)

VARIABLES
  pc,        \* "start", "failed" (Gen returned an error), "generated", "ready", "called"
  i,         \* the value Gen was called on
  c,         \* the Config the options built
  fn,        \* the function Gen returned
  err,       \* the error Gen returned ("" for nil)
  structFs,  \* the generator's structFs, which fn's thunks read
  heap,      \* the objects of the two values
  argL,      \* the interface value l of the call: dynamic type and data pointer
  argR,      \* the interface value r of the call
  pre,       \* the heap when the call began
  panicked,  \* whether the call panicked
  calls,     \* the number of calls made on the two arguments
  swapped,   \* the copy of the memory after the call f(r, l)
  threads    \* the goroutines that run f side by side (none in a plain test)

vars ==
  <<pc, i, c, fn, err, structFs, heap, argL, argR, pre, panicked, calls, swapped, threads>>

\* No call f(r, l) was made.
NotSwapped == [h |-> <<>>, ok |-> TRUE]

Init ==
  /\ pc = "start"
  /\ i = [typ |-> "invalid", nil |-> TRUE]
  /\ c = [skips |-> <<>>, unsafeMap |-> FALSE]
  /\ fn = [typ |-> "", f |-> NilF]
  /\ err = ""
  /\ structFs = <<>>
  /\ heap = <<>>
  /\ argL = [typ |-> "", data |-> 0]
  /\ argR = [typ |-> "", data |-> 0]
  /\ pre = <<>>
  /\ panicked = FALSE
  /\ calls = 0
  /\ swapped = NotSwapped
  /\ threads = <<>>

\* The caller has the results g of Gen(iv, ...).
Generated(iv, g) ==
  /\ i' = iv
  /\ c' = g.c
  /\ fn' = g.fn
  /\ err' = g.err
  /\ structFs' = g.fs
  /\ pc' = IF g.err = "" THEN "generated" ELSE "failed"

\* f, err := Gen(i, options...)
CallGen ==
  /\ pc = "start"
  /\ \E iv \in Roots, options \in OptionLists : Generated(iv, Gen(iv, options))
  /\ UNCHANGED <<heap, argL, argR, pre, panicked, calls, swapped, threads>>

\* new(T): a pointer to a fresh object holding w.
New(al) == Append(al.h, al.w)

\* The second argument, a value xr of type tr, built after the first on the
\* heap hl.
PrepareR(tl, tr, xr, hl) ==
  /\ \E hr \in {New(Alloc(hl, Types[tr].elem, xr))} :
       /\ heap' = hr
       /\ argR' = [typ |-> tr, data |-> Len(hr)]
  /\ argL' = [typ |-> tl, data |-> Len(hl)]

\* The test builds the two arguments.
Prepare ==
  /\ pc = "generated"
  /\ \E tl \in {fn.typ, Other(fn.typ)}, tr \in {fn.typ, Other(fn.typ)} :
       \E xl \in ArgValues(tl, fn.typ), xr \in ArgValues(tr, fn.typ) :
         PrepareR(tl, tr, xr, New(Alloc(<<>>, Types[tl].elem, xl)))
  /\ pc' = "ready"
  /\ pre' = <<>>
  /\ panicked' = FALSE
  /\ calls' = 0
  /\ UNCHANGED <<i, c, fn, err, structFs, swapped, threads>>

\* The call has returned or panicked, leaving the heap res.h.
Returned(res) ==
  /\ heap' = res.h
  /\ panicked' = ~res.ok

\* The type the root pointer points to.
Root == Types[i.typ].elem

\* Field j of the root struct.
RootField(j) == Types[Root].fields[j]

RootFields == DOMAIN Types[Root].fields

IntKinds ==
  {"Int", "Int8", "Int16", "Int32", "Int64", "Uint", "Uint8", "Uint16", "Uint32", "Uint64",
   "Uintptr"}

\* The root is a struct whose fields are all integers or booleans.
AdditiveStruct ==
  /\ Types[Root].kind = "Struct"
  /\ \A j \in RootFields : Types[RootField(j).typ].kind \in IntKinds \cup {"Bool"}

\* The call f(r, l) on the copy has returned or panicked.
Mirrored(res) == swapped' = res

\* The plan f holds a map closure (the closures behind a thunk are not
\* looked into).
RECURSIVE MapIn(_)
MapIn(f) ==
  IF f.k = "map" THEN TRUE
  ELSE IF f.k \in {"ptr", "array", "slice"} THEN MapIn(f.f)
  ELSE IF f.k = "struct" THEN \E j \in DOMAIN f.offsetFs : MapIn(f.offsetFs[j].f)
  ELSE FALSE

\* The orders in which a call may meet the keys of the maps: one when no
\* closure of the function ranges over a map.
MapOrders(f, fs) ==
  IF MapIn(f) \/ \E n \in DOMAIN fs : MapIn(fs[n]) THEN BOOLEAN ELSE {FALSE}

\* The thunks of the plan f: the closures func(l, r) { (*pf)(l, r) }, each
\* with the slot it goes through and the type gen returned it for.
RECURSIVE Thunks(_)
Thunks(f) ==
  IF f.k = "thunk" THEN {f}
  ELSE IF f.k \in {"ptr", "array", "slice", "map"} THEN Thunks(f.f)
  ELSE IF f.k = "struct" THEN UNION {Thunks(f.offsetFs[j].f) : j \in DOMAIN f.offsetFs}
  ELSE {}

\* A thunk of the function goes through a slot that holds the closure of
\* another struct type than the one the thunk stands for.
Mistyped(f, fs) ==
  \E th \in Thunks(f) \cup UNION {Thunks(fs[n]) : n \in DOMAIN fs} :
    fs[th.pf].k = "struct" /\ fs[th.pf].typ # th.typ

\* What a call may end as.  A closure that runs on a value of another
\* struct type reads and writes words at the offsets of the wrong type:
\* the call returns with those words combined, or the runtime stops the
\* program on a word that is no longer a valid pointer.
Outcomes(f, fs, res) ==
  IF res.ok /\ Mistyped(f, fs) THEN {res, Panic(res)} ELSE {res}

\* f(l, r), and on a struct of integers and booleans f(r, l) on the copy
Call ==
  /\ \E rev \in MapOrders(fn.f, structFs) :
       /\ \E res \in Outcomes(fn.f, structFs, Executor(fn, structFs, heap, argL, argR, rev)) :
            Returned(res)
       /\ Mirrored(IF AdditiveStruct THEN Executor(fn, structFs, heap, argR, argL, rev)
                   ELSE NotSwapped)
  /\ pre' = heap
  /\ pc' = "called"
  /\ calls' = calls + 1
  /\ UNCHANGED <<i, c, fn, err, structFs, argL, argR, threads>>

\* The first call on the two arguments.
CallExecutor == pc = "ready" /\ Call

\* The test goes on to call f on the same two arguments once more.
Again == pc = "called" /\ ~panicked /\ calls < MaxCalls /\ Call

Next == CallGen \/ Prepare \/ CallExecutor \/ Again

Spec == Init /\ [][Next]_vars

----------------------------------------------------------------------------
(* Two goroutines call the same generated function side by side, each on   *)
(* its own pair of values.  A goroutine runs one closure call at a time:   *)
(* its stack holds the calls it has still to make, the next one first.     *)

\* A pending call f(l, r).
Frame(f, l, r) == [f |-> f, l |-> l, r |-> r]

\* The calls of a loop over n elements.
ElemFrames(f, l, r, n) ==
  [j \in 1..n |-> Frame(f, fieldByOffset(l, j), fieldByOffset(r, j))]

\* The steps of the fifteen loops of the struct closure, from the i-th kind on.
RECURSIVE PrimFrames(_, _, _, _)
PrimFrames(prims, n, l, r) ==
  IF n > Len(StructPrims) THEN <<>>
  ELSE [j \in DOMAIN prims[StructPrims[n]] |->
          Frame([k |-> "prim", kind |-> StructPrims[n]],
                fieldByOffset(l, prims[StructPrims[n]][j]),
                fieldByOffset(r, prims[StructPrims[n]][j]))]
       \o PrimFrames(prims, n + 1, l, r)

\* A loop over offsetFs from its last element to its first.
OffsetFramesReversed(offsetFs, l, r) ==
  [j \in DOMAIN offsetFs |->
     Frame(offsetFs[Len(offsetFs) + 1 - j].f,
           fieldByOffset(l, offsetFs[Len(offsetFs) + 1 - j].offset),
           fieldByOffset(r, offsetFs[Len(offsetFs) + 1 - j].offset))]

\* The calls of the loop over offsetFs.
OffsetFrames(offsetFs, l, r) ==
  [j \in DOMAIN offsetFs |->
     Frame(offsetFs[j].f, fieldByOffset(l, offsetFs[j].offset),
           fieldByOffset(r, offsetFs[j].offset))]

\* The calls the slice closure makes once normalize has left n.
SliceFrames(f, n, l, r) ==
  [h |-> n.h, ok |-> TRUE,
   push |-> ElemFrames(f, Loc(Load(n.h, l).data), Loc(Load(n.h, r).data), n.limit)]

\* What a goroutine does after the map closure has run to st.
MapDone(st) == [h |-> st.h, ok |-> st.ok, push |-> <<>>]

\* One closure call fr on heap h, up to the calls it makes of other
\* closures: the heap it leaves, the calls to make in its place, and
\* whether it went without a panic.  The map closure runs in one piece.
StepFrame(fr, h, fs, rev) ==
  LET f == fr.f
      il == Load(h, fr.l)
      ir == Load(h, fr.r)
  IN IF f.k = "nil" THEN [h |-> h, ok |-> FALSE, push |-> <<>>]
     ELSE IF f.k = "prim" THEN [h |-> Combine(f.kind, h, fr.l, fr.r), ok |-> TRUE, push |-> <<>>]
     ELSE IF f.k = "ptr"
     THEN IF il = 0 THEN [h |-> ptrTake(h, fr.l, fr.r), ok |-> TRUE, push |-> <<>>]
          ELSE IF ir = 0 THEN [h |-> h, ok |-> TRUE, push |-> <<>>]
          ELSE [h |-> h, ok |-> TRUE, push |-> <<Frame(f.f, Loc(il), Loc(ir))>>]
     ELSE IF f.k = "arrayPrim"
     THEN [h |-> h, ok |-> TRUE,
           push |-> ElemFrames([k |-> "prim", kind |-> f.kind], fr.l, fr.r, f.len)]
     ELSE IF f.k = "array"
     THEN [h |-> h, ok |-> TRUE, push |-> ElemFrames(f.f, fr.l, fr.r, f.len)]
     ELSE IF f.k = "slicePrim"
     THEN SliceFrames([k |-> "prim", kind |-> f.kind], normalize(h, fr.l, fr.r), fr.l, fr.r)
     ELSE IF f.k = "slice" THEN SliceFrames(f.f, normalize(h, fr.l, fr.r), fr.l, fr.r)
     ELSE IF f.k = "struct"
     THEN [h |-> h, ok |-> TRUE,
           push |-> PrimFrames(f.prims, 1, fr.l, fr.r) \o OffsetFrames(f.offsetFs, fr.l, fr.r)]
     ELSE IF f.k = "thunk"
     THEN [h |-> h, ok |-> TRUE, push |-> <<Frame(fs[f.pf], fr.l, fr.r)>>]
     ELSE MapDone(Exec([fs |-> fs, rev |-> rev], f, [h |-> h, ok |-> TRUE], fr.l, fr.r))

\* Goroutines that all use the stack and the locals of the first.
Shared(ths, t) == ths[1]

\* The stack and the locals of goroutine t.
Mine(ths, t) == ths[t]

\* The root types and the options of the functions that are called side by
\* side.
ParRoots ==
  {<<"*SL", <<>>>>, <<"*PT", <<>>>>, <<"*R", <<>>>>, <<"*MB", <<WithSlowerMapsUnsafely>>>>}

\* The values of the arguments a goroutine passes.
ParValues(t) == Values(Types[t].elem, 1)

\* A goroutine that is to call f(l, r).
Thread(l, r) == [l |-> l, r |-> r, stack |-> <<>>, began |-> FALSE, ok |-> TRUE, met |-> FALSE]

\* The four values are built one after the other on an empty heap, each
\* behind a pointer of its own.
ParHeap(t, xs) ==
  New(Alloc(New(Alloc(New(Alloc(New(Alloc(<<>>, Types[t].elem, xs[1])),
                                Types[t].elem, xs[2])), Types[t].elem, xs[3])),
            Types[t].elem, xs[4]))

\* The pointers to the four values on that heap, in the order they were built.
ParArgs(t, xs) ==
  LET h1 == New(Alloc(<<>>, Types[t].elem, xs[1]))
      h2 == New(Alloc(h1, Types[t].elem, xs[2]))
      h3 == New(Alloc(h2, Types[t].elem, xs[3]))
  IN <<Len(h1), Len(h2), Len(h3), Len(ParHeap(t, xs))>>

\* Gen has returned g for the root type t and the four values xs are built.
ParStart(t, g, xs, as) ==
  /\ i = [typ |-> t, nil |-> FALSE]
  /\ c = g.c /\ fn = g.fn /\ err = g.err /\ structFs = g.fs
  /\ heap = ParHeap(t, xs)
  /\ pre = ParHeap(t, xs)
  /\ threads = <<Thread([typ |-> t, data |-> as[1]], [typ |-> t, data |-> as[2]]),
                 Thread([typ |-> t, data |-> as[3]], [typ |-> t, data |-> as[4]])>>

InitPar ==
  /\ pc = "parallel"
  /\ argL = [typ |-> "", data |-> 0]
  /\ argR = [typ |-> "", data |-> 0]
  /\ panicked = FALSE
  /\ calls = 0
  /\ swapped = NotSwapped
  /\ \E ro \in ParRoots :
       \E xs \in [1..4 -> ParValues(ro[1])] :
         ParStart(ro[1], Gen([typ |-> ro[1], nil |-> FALSE], ro[2]), xs, ParArgs(ro[1], xs))

\* Another goroutine is inside its call.
Busy(t) == \E u \in DOMAIN threads \ {t} : threads[u].began /\ threads[u].stack # <<>>

\* Goroutine t calls f(l, r): the check, and the call of the closure.
Begin(t) ==
  /\ pc = "parallel" /\ ~Mine(threads, t).began
  /\ threads' =
       [threads EXCEPT ![t].began = TRUE,
                       ![t].ok = check(fn.typ, Mine(threads, t).l, Mine(threads, t).r),
                       ![t].stack =
                         IF check(fn.typ, Mine(threads, t).l, Mine(threads, t).r) /\ fn.f.k # "nil"
                         THEN <<Frame(fn.f, Loc(Mine(threads, t).l.data), Loc(Mine(threads, t).r.data))>>
                         ELSE <<>>]
  /\ UNCHANGED <<pc, i, c, fn, err, structFs, heap, argL, argR, pre, panicked, calls, swapped>>

\* Goroutine t has made the step res: a panic ends its call.
Stepped(t, res) ==
  /\ heap' = res.h
  /\ threads' =
       [threads EXCEPT ![t].ok = res.ok,
                       ![t].met = @ \/ Busy(t),
                       ![t].stack = IF res.ok THEN res.push \o Tail(Mine(threads, t).stack)
                                    ELSE <<>>]

\* Goroutine t makes the closure call that is next on its stack.
Step(t) ==
  /\ pc = "parallel" /\ Mine(threads, t).began /\ Mine(threads, t).stack # <<>>
  /\ \E rev \in BOOLEAN : Stepped(t, StepFrame(Head(Mine(threads, t).stack), heap, structFs, rev))
  /\ UNCHANGED <<pc, i, c, fn, err, structFs, argL, argR, pre, panicked, calls, swapped>>

NextPar == \E t \in {1, 2} : Begin(t) \/ Step(t)

SpecPar == InitPar /\ [][NextPar]_vars

----------------------------------------------------------------------------
(* What the documentation promises, stated on trees.                        *)

\* Gen was called on a non-nil pointer.
OnPointer == pc # "start" /\ Types[i.typ].kind = "Ptr" /\ ~i.nil

\* The configured skip paths, as a set.
Skips == Range(c.skips)

\* The call of the generated function is over and both arguments had the
\* root type.
Merging == pc = "called" /\ check(fn.typ, argL, argR)

\* The left and the right value before and after the call.
LeftBefore == Deep(pre, Root, pre[argL.data])

RightBefore == Deep(pre, Root, pre[argR.data])

LeftAfter == Deep(heap, Root, heap[argL.data])

RightAfter == Deep(heap, Root, heap[argR.data])

\* l + r in the arithmetic of the kind: the sum modulo 2^w in the range of
\* the kind (the sums of the inputs of the kinds wider than 16 bits stay
\* below 2^31, so modulo 2^w they are the sums themselves), the pairwise
\* sum of a complex number, OR of booleans.
Sum(kind, a, b) ==
  LET m == 2 ^ Bits(kind)
      s == (a + b) % m
  IN IF kind = "Bool" THEN a \/ b
     ELSE IF kind \in {"Complex64", "Complex128"} THEN <<a[1] + b[1], a[2] + b[2]>>
     ELSE IF Bits(kind) = 0 THEN a + b
     ELSE IF Signed(kind) /\ 2 * s >= m THEN s - m
     ELSE s

\* The field called name is dropped by a path of one segment.
Dropped(skips, name) == <<name>> \in skips

\* What remains, below the field called name, of the paths that go through it.
Residual(skips, name) ==
  {SubSeq(p, 3, Len(p)) : p \in {q \in skips : Len(q) > 2 /\ q[1] = name /\ q[2] = ">"}}

RECURSIVE EmptyIn(_, _, _)
\* Nothing of type t is merged; up holds the struct types that t lies in
\* and that were entered with no path left, where a type that is met again
\* adds nothing.
EmptyIn(t, skips, up) ==
  LET typ == Types[t]
  IN IF typ.kind \in {"Ptr", "Array", "Slice"} THEN EmptyIn(typ.elem, skips, up)
     ELSE IF typ.kind = "Struct"
     THEN \/ skips = {} /\ t \in up
          \/ \A j \in DOMAIN typ.fields :
               \/ Dropped(skips, typ.fields[j].name)
               \/ EmptyIn(typ.fields[j].typ, Residual(skips, typ.fields[j].name),
                          IF skips = {} THEN up \cup {t} ELSE up)
     ELSE FALSE

\* Nothing of type t is merged: every field is dropped or holds nothing
\* that is merged.
Empty(t, skips) == EmptyIn(t, skips, {})

RECURSIVE Merged(_, _, _, _)
\* The left value after merging the right value y into the left value x of
\* type t, as the documentation describes it.
Merged(t, skips, x, y) ==
  LET typ == Types[t]
      kind == typ.kind
      n == IF Len(x) < Len(y) THEN Len(y) ELSE Len(x)
  IN IF Empty(t, skips) THEN x
     ELSE IF kind = "Ptr"
     THEN IF x = <<>> THEN y
          ELSE IF y = <<>> THEN x
          ELSE <<Merged(typ.elem, skips, x[1], y[1])>>
     ELSE IF kind = "Array" THEN [j \in DOMAIN x |-> Merged(typ.elem, skips, x[j], y[j])]
     ELSE IF kind = "Slice"
     THEN [j \in 1..n |->
             IF j <= Len(x) /\ j <= Len(y) THEN Merged(typ.elem, skips, x[j], y[j])
             ELSE IF j <= Len(x) THEN x[j] ELSE y[j]]
     ELSE IF kind = "Struct"
     THEN [j \in DOMAIN x |->
             IF Dropped(skips, typ.fields[j].name) THEN x[j]
             ELSE Merged(typ.fields[j].typ, Residual(skips, typ.fields[j].name), x[j], y[j])]
     ELSE IF kind = "Map"
     THEN IF y = <<>> THEN x
          ELSE IF x = <<>> THEN (IF DOMAIN y[1] = {} THEN x ELSE y)
          ELSE <<[key \in DOMAIN x[1] \cup DOMAIN y[1] |->
                    IF key \notin DOMAIN y[1] THEN x[1][key]
                    ELSE IF key \notin DOMAIN x[1] THEN y[1][key]
                    ELSE Merged(typ.elem, {}, x[1][key], y[1][key])]>>
     ELSE Sum(kind, x, y)

RECURSIVE Masked(_, _, _)
\* The tree x with every dropped field blanked: what of x takes part in a
\* merge.
Masked(t, skips, x) ==
  LET typ == Types[t]
      kind == typ.kind
  IN IF kind = "Ptr" THEN IF x = <<>> THEN <<>> ELSE <<Masked(typ.elem, skips, x[1])>>
     ELSE IF kind \in {"Array", "Slice"} THEN [j \in DOMAIN x |-> Masked(typ.elem, skips, x[j])]
     ELSE IF kind = "Struct"
     THEN [j \in DOMAIN x |->
             IF Dropped(skips, typ.fields[j].name) THEN <<>>
             ELSE <<Masked(typ.fields[j].typ, Residual(skips, typ.fields[j].name), x[j])>>]
     ELSE x

----------------------------------------------------------------------------
(* The claims.                                                             *)

\* The root is a struct whose fields that no path drops are integers or
\* booleans.
AdditiveRoot ==
  /\ Types[Root].kind = "Struct"
  /\ \A j \in RootFields :
       Dropped(Skips, RootField(j).name) \/ Types[RootField(j).typ].kind \in IntKinds \cup {"Bool"}

\* C1: on a struct whose non-dropped fields are integers or booleans, the
\* call does not panic; afterwards each integer field of l is the sum of the
\* two fields modulo 2^w, each boolean field of l is the OR of the two, and
\* the same fields of r are as before.
C1_AdditiveFields ==
  (Merging /\ AdditiveRoot) =>
    /\ ~panicked
    /\ \A j \in RootFields :
         Dropped(Skips, RootField(j).name) \/
           /\ heap[argL.data][j] =
                Sum(Types[RootField(j).typ].kind, pre[argL.data][j], pre[argR.data][j])
           /\ heap[argR.data][j] = pre[argR.data][j]

\* A merge of two Nums whose int8 fields are both 127 and whose bool fields
\* are FALSE and TRUE: the sum has wrapped to -2.
C1_Witness ==
  /\ Merging /\ AdditiveRoot /\ i.typ = "*Nums"
  /\ pre[argL.data][1] = 127 /\ pre[argR.data][1] = 127 /\ heap[argL.data][1] = -2
  /\ ~pre[argL.data][3] /\ pre[argR.data][3] /\ heap[argL.data][3]

\* Field j of the root struct has kind and the generated function merges it.
MergedField(j, kind) ==
  /\ Types[RootField(j).typ].kind = kind
  /\ ~Dropped(Skips, RootField(j).name)
  /\ ~Empty(RootField(j).typ, Residual(Skips, RootField(j).name))

\* The promise on the slice field j.  x and y are the two slices before the
\* call and z is the left one after it; hl and hr are the headers before.
SliceMerged(j, x, y, z, hl, hr) ==
  LET et == Types[RootField(j).typ].elem
      rs == Residual(Skips, RootField(j).name)
  IN /\ Len(z) = IF Len(x) < Len(y) THEN Len(y) ELSE Len(x)
     /\ \A k \in DOMAIN z :
          IF k <= Len(x) /\ k <= Len(y)
          THEN Masked(et, rs, z[k]) = Masked(et, rs, Merged(et, rs, x[k], y[k]))
          ELSE z[k] = IF k <= Len(x) THEN x[k] ELSE y[k]
     /\ IF hr.len > hl.len
        THEN heap[argL.data][j] = hr /\ heap[argR.data][j] = hl
        ELSE heap[argL.data][j] = hl /\ heap[argR.data][j] = hr

\* C2: after the merge of a slice field of lengths a (left) and b (right),
\* the left slice has length max(a, b), its first min(a, b) elements are the
\* merges of the elements at the same index, the rest is the tail the longer
\* side had, and the two headers are swapped exactly when b > a, which
\* leaves the right with length a.
C2_SliceMerge ==
  (Merging /\ Types[Root].kind = "Struct") =>
    \A j \in RootFields :
      MergedField(j, "Slice") =>
        SliceMerged(j, LeftBefore[j], RightBefore[j], LeftAfter[j],
                    pre[argL.data][j], pre[argR.data][j])

\* A left []foo of length 1 merged with a right one of length 2: the left
\* is now the right's array with the sums in its first element, and the
\* right holds the left's former array.
C2_Witness ==
  /\ Merging /\ i.typ = "*SL" /\ Skips = {}
  /\ LeftBefore = << << <<5, 5>> >> >>
  /\ RightBefore = << << <<5, 5>>, <<5, 5>> >> >>
  /\ LeftAfter = << << <<10, 10>>, <<5, 5>> >> >>
  /\ RightAfter = << << <<5, 5>> >> >>
  /\ heap[argL.data][1].data = pre[argR.data][1].data
  /\ heap[argR.data][1].data = pre[argL.data][1].data

\* The promise on the pointer field j, whose slots held pl and pr before
\* the call.
PtrMerged(j, pl, pr) ==
  LET et == Types[RootField(j).typ].elem
      rs == Residual(Skips, RootField(j).name)
  IN IF pl = 0
     THEN heap[argL.data][j] = pr /\ heap[argR.data][j] = 0
     ELSE /\ heap[argL.data][j] = pl /\ heap[argR.data][j] = pr
          /\ IF pr = 0
             THEN Deep(heap, et, heap[pl]) = Deep(pre, et, pre[pl])
             ELSE Masked(et, rs, Deep(heap, et, heap[pl])) =
                    Masked(et, rs, Merged(et, rs, Deep(pre, et, pre[pl]), Deep(pre, et, pre[pr])))

\* C3: on a pointer field whose element is merged, a nil left slot takes
\* the right's pointer and the right slot becomes nil; else a nil right slot
\* leaves both slots and the left target as they are; else the two targets
\* are merged into the left target and both slots stay as they are.
C3_PointerMerge ==
  (Merging /\ Types[Root].kind = "Struct") =>
    \A j \in RootFields :
      MergedField(j, "Ptr") => ~panicked /\ PtrMerged(j, pre[argL.data][j], pre[argR.data][j])

\* The two merges of the documentation on the *int field f7: left ->6 and
\* right ->5 give left ->11 with right still ->5 (here with q nil on the
\* left and set on the right, so q is handed over).
C3_Witness ==
  /\ Merging /\ i.typ = "*PT"
  /\ LeftBefore = << <<6>>, <<>> >> /\ RightBefore = << <<5>>, << <<5, 5>> >> >>
  /\ LeftAfter = << <<11>>, << <<5, 5>> >> >> /\ RightAfter = << <<5>>, <<>> >>
  /\ heap[argL.data][2] = pre[argR.data][2]

\* The keys of a map tree (none for the nil map).
Keys(m) == IF m = <<>> THEN {} ELSE DOMAIN m[1]

\* The promise on the map field j.  x and y are the two maps before the
\* call and z is the left one after it.
MapMerged(j, x, y, z) ==
  LET et == Types[RootField(j).typ].elem
  IN /\ Keys(z) = Keys(x) \cup Keys(y)
     /\ \A key \in Keys(z) :
          z[1][key] = IF key \notin Keys(y) THEN x[1][key]
                      ELSE IF key \notin Keys(x) THEN y[1][key]
                      ELSE Merged(et, {}, x[1][key], y[1][key])

\* C4: with map merging enabled, after the merge of a map field the keys of
\* the left map are the keys of both maps; a key of the left alone keeps its
\* value, a key of the right alone has the right's value, and a key of both
\* has the merge of the two values.
C4_MapMerge ==
  (Merging /\ c.unsafeMap /\ Types[Root].kind = "Struct") =>
    \A j \in RootFields :
      MergedField(j, "Map") => MapMerged(j, LeftBefore[j], RightBefore[j], LeftAfter[j])

RECURSIVE Designates(_, _)
\* The path designates a field: its first segment names a field of the
\* struct reached first (through pointers, arrays and slices), and what
\* follows the '>' designates a field below that field.
Designates(t, path) ==
  LET typ == Types[t]
  IN IF typ.kind \in {"Ptr", "Array", "Slice"} THEN Designates(typ.elem, path)
     ELSE IF typ.kind # "Struct" \/ path = <<>> THEN FALSE
     ELSE \E j \in DOMAIN typ.fields :
            /\ typ.fields[j].name = path[1]
            /\ \/ Len(path) = 1
               \/ Len(path) > 2 /\ path[2] = ">"
                  /\ Designates(typ.fields[j].typ, SubSeq(path, 3, Len(path)))

\* Gen returned an error and no function.
Refused == pc = "failed" /\ err # "" /\ fn.f = NilF /\ fn.typ = ""

\* C5: when a configured skip path designates no field of the root type,
\* Gen returns an error and no function.
C5_SkipsMustMatch ==
  (OnPointer /\ \E p \in Skips : ~Designates(Root, p)) => Refused

RECURSIVE ReachesIn(_, _, _, _)
\* A type of one of the kinds lies in t outside the dropped fields; up
\* holds the struct types that t lies in and that were entered with no path
\* left, which are not entered again.
ReachesIn(t, skips, kinds, up) ==
  LET typ == Types[t]
  IN \/ typ.kind \in kinds
     \/ typ.kind \in {"Ptr", "Array", "Slice"} /\ ReachesIn(typ.elem, skips, kinds, up)
     \/ typ.kind = "Map" /\ ReachesIn(typ.elem, {}, kinds, up)
     \/ /\ typ.kind = "Struct"
        /\ ~(skips = {} /\ t \in up)
        /\ \E j \in DOMAIN typ.fields :
             /\ ~Dropped(skips, typ.fields[j].name)
             /\ ReachesIn(typ.fields[j].typ, Residual(skips, typ.fields[j].name), kinds,
                          IF skips = {} THEN up \cup {t} ELSE up)

\* A type of one of the kinds lies in t outside the dropped fields: t
\* itself, or what is reached through the fields that are not dropped,
\* pointers, array and slice elements and map values.
Reaches(t, skips, kinds) == ReachesIn(t, skips, kinds, {})

\* The kinds the documentation excludes from merging under the options given.
Barred == Unmergeable \cup (IF c.unsafeMap THEN {} ELSE {"Map"})

RECURSIVE Shape(_, _)
\* The tree x without its numbers and booleans: the lengths of its slices,
\* the keys of its maps and which of its pointers are nil.
Shape(t, x) ==
  LET typ == Types[t]
      kind == typ.kind
  IN IF kind = "Ptr" THEN IF x = <<>> THEN <<>> ELSE <<Shape(typ.elem, x[1])>>
     ELSE IF kind \in {"Array", "Slice"} THEN [j \in DOMAIN x |-> Shape(typ.elem, x[j])]
     ELSE IF kind = "Struct" THEN [j \in DOMAIN x |-> Shape(typ.fields[j].typ, x[j])]
     ELSE IF kind = "Map"
     THEN IF x = <<>> THEN <<>> ELSE <<[key \in DOMAIN x[1] |-> Shape(typ.elem, x[1][key])]>>
     ELSE <<>>

\* The root type holds a barred kind, the paths all designate fields, and
\* every barred kind of the root type lies in a field they drop.
BarredAreDropped ==
  /\ OnPointer
  /\ \A p \in Skips : Designates(Root, p)
  /\ Reaches(Root, {}, Barred)
  /\ ~Reaches(Root, Skips, Barred)

\* C6: when every unmergeable kind (and, without the map option, every
\* map) of the root type lies in a field that a skip path designates, at
\* whatever depth, Gen succeeds; a call of the function does not panic and
\* merges what is not dropped, and between two values of the same shape the
\* dropped fields of the left keep their values.
C6_DroppedNotInspected ==
  BarredAreDropped =>
    /\ pc # "failed" /\ err = ""
    /\ Merging =>
         /\ ~panicked
         /\ Masked(Root, Skips, LeftAfter) =
              Masked(Root, Skips, Merged(Root, Skips, LeftBefore, RightBefore))
         /\ Shape(Root, LeftBefore) = Shape(Root, RightBefore) =>
              LeftAfter = Merged(Root, Skips, LeftBefore, RightBefore)

\* The example of the documentation: Outer with the path foo>bar>baz, whose
\* field baz is an interface; two values with one element each add k and
\* leave baz.
C6_Witness ==
  /\ Merging /\ BarredAreDropped
  /\ i.typ = "*Outer" /\ Skips = {<<"foo", ">", "bar", ">", "baz">>}
  /\ LeftBefore = << << << <<0, 1>> >> >> >>
  /\ RightBefore = << << << <<1, 1>> >> >> >>
  /\ LeftAfter = << << << <<0, 2>> >> >> >>

\* Some field of the root struct is dropped by a path of one segment.
RootDrop ==
  /\ Types[Root].kind = "Struct"
  /\ \E j \in RootFields : Dropped(Skips, RootField(j).name)

\* C7: a field that a one-segment path drops at the root struct holds in l
\* and in r after the call what it held before, and when the call has
\* returned every other field of l is merged.
C7_RootSkipUntouched ==
  (Merging /\ RootDrop) =>
    \A j \in RootFields :
      IF Dropped(Skips, RootField(j).name)
      THEN /\ LeftAfter[j] = LeftBefore[j] /\ RightAfter[j] = RightBefore[j]
           /\ heap[argL.data][j] = pre[argL.data][j] /\ heap[argR.data][j] = pre[argR.data][j]
      ELSE ~panicked =>
             LeftAfter[j] =
               Merged(RootField(j).typ, Residual(Skips, RootField(j).name),
                      LeftBefore[j], RightBefore[j])

\* The example of the documentation: F1 dropped, (1, 3) merged with (7, 9)
\* gives (1, 12).
C7_Witness ==
  /\ Merging /\ i.typ = "*S2" /\ Skips = {<<"F1">>}
  /\ LeftBefore = <<1, 3>> /\ RightBefore = <<7, 9>>
  /\ LeftAfter = <<1, 12>> /\ RightAfter = <<7, 9>>

\* C8: a call with an argument whose dynamic type is not the type given to
\* Gen panics and leaves the heap as it was, also when the function
\* generated is the no-op one.
C8_TypeGuard ==
  (pc = "called" /\ (argL.typ # fn.typ \/ argR.typ # fn.typ)) => panicked /\ heap = pre

\* The no-op function for S2 with both fields dropped, called with a left
\* argument of another type.
C8_Witness ==
  /\ pc = "called" /\ fn.typ = "*S2" /\ fn.f = NilF
  /\ argL.typ = "*foo" /\ argR.typ = "*S2"
  /\ panicked /\ heap = pre

\* C9: called on a value that is no pointer, or on a pointer to a pointer,
\* Gen returns an error and no function, whatever the options.
C9_RootMustBeSinglePointer ==
  (pc # "start" /\ (Types[i.typ].kind # "Ptr" \/ Types[Types[i.typ].elem].kind = "Ptr")) =>
    Refused

\* Gen has refused a non-nil **S2 with two options, one of them the map
\* option.
C9_Witness ==
  /\ Refused /\ i = [typ |-> "**S2", nil |-> FALSE]
  /\ c.unsafeMap /\ c.skips = << <<"F1">> >>
  /\ err = "merge functions can only be generated for single-pointer-indirection types"

\* C10: when an interface, a channel, a function, a string, an unsafe
\* pointer or the invalid kind lies in the root type outside the dropped
\* fields, Gen returns an error and no function.
C10_ClosedKinds ==
  (OnPointer /\ Reaches(Root, Skips, Unmergeable)) => Refused

\* C11: without the map option Gen returns an error and no function for
\* every root type that holds a map outside the dropped fields; with the
\* option, and paths that all designate fields, Gen succeeds on such a type
\* when no unmergeable kind lies outside the dropped fields.
C11_MapsNeedOption ==
  (OnPointer /\ Reaches(Root, Skips, {"Map"})) =>
    IF ~c.unsafeMap THEN Refused
    ELSE ((\A p \in Skips : Designates(Root, p)) /\ ~Reaches(Root, Skips, Unmergeable)) =>
           (pc # "failed" /\ err = "")

C13_EmptyPropagates ==
  (OnPointer /\ pc # "failed" /\ Empty(Root, Skips)) =>
    /\ fn.f = NilF
    /\ Merging => ~panicked /\ heap = pre

RECURSIVE Keeps(_, _, _, _)
\* Every boolean of the tree x that is true and lies outside the dropped
\* fields is there and true in the tree z.
Keeps(t, skips, x, z) ==
  LET typ == Types[t]
      kind == typ.kind
  IN IF kind = "Bool" THEN x => z
     ELSE IF kind = "Ptr"
     THEN x = <<>> \/ (z # <<>> /\ Keeps(typ.elem, skips, x[1], z[1]))
     ELSE IF kind \in {"Array", "Slice"}
     THEN Len(x) <= Len(z) /\ \A j \in DOMAIN x : Keeps(typ.elem, skips, x[j], z[j])
     ELSE IF kind = "Struct"
     THEN \A j \in DOMAIN x :
            \/ Dropped(skips, typ.fields[j].name)
            \/ Keeps(typ.fields[j].typ, Residual(skips, typ.fields[j].name), x[j], z[j])
     ELSE IF kind = "Map"
     THEN x = <<>> \/ (z # <<>> /\ \A key \in DOMAIN x[1] :
                          key \in DOMAIN z[1] /\ Keeps(typ.elem, {}, x[1][key], z[1][key]))
     ELSE TRUE

\* C14: a boolean of the left value that is true before a call (a field,
\* an element of an array or a slice, what a pointer points to, a value of
\* a map) and that no path drops is true after the call, in the first call
\* on a pair of arguments and in every call that follows.
C14_BoolMonotone ==
  (Merging /\ Reaches(Root, Skips, {"Bool"})) => Keeps(Root, Skips, LeftBefore, LeftAfter)

\* The second call on two RS values.  Before it the left has v true and
\* two kids, the first with v true, and the right has v false and one kid
\* with v false; after it both booleans of the left are still true.
C14_Witness ==
  /\ Merging /\ i.typ = "*RS" /\ calls = 2 /\ ~panicked
  /\ Len(LeftBefore[2]) = 2 /\ Len(RightBefore[2]) = 1
  /\ LeftBefore[1] /\ LeftBefore[2][1][1] /\ ~RightBefore[1] /\ ~RightBefore[2][1][1]
  /\ LeftAfter[1] /\ LeftAfter[2][1][1]

\* C15: on a struct whose fields are all integers or booleans, the call
\* f(a, b) and the call f(b, a) on the same two values both return, and
\* each field that is not dropped holds in the left argument of either call
\* the same value, the sum of the two fields (OR for booleans).
C15_Commutative ==
  (Merging /\ AdditiveStruct) =>
    /\ ~panicked /\ swapped.ok
    /\ \A j \in RootFields :
         Dropped(Skips, RootField(j).name) \/
           /\ heap[argL.data][j] = swapped.h[argR.data][j]
           /\ heap[argL.data][j] =
                Sum(Types[RootField(j).typ].kind, pre[argL.data][j], pre[argR.data][j])

\* Two Nums that differ in every field, (127, 1, FALSE, -32768) and
\* (-128, 255, TRUE, 32767): merged either way, the left argument holds
\* (-1, 0, TRUE, -1).
C15_Witness ==
  /\ Merging /\ i.typ = "*Nums" /\ Skips = {} /\ calls = 1
  /\ pre[argL.data] = <<127, 1, FALSE, -32768>> /\ pre[argR.data] = <<-128, 255, TRUE, 32767>>
  /\ heap[argL.data] = <<-1, 0, TRUE, -1>> /\ swapped.h[argR.data] = <<-1, 0, TRUE, -1>>
  /\ swapped.h[argL.data] = pre[argL.data]

\* Goroutine t has returned from its call, or has panicked in it.
Done(t) == threads[t].began /\ threads[t].stack = <<>>

\* The pair of goroutine t is as the call f(l, r) made alone on the memory
\* of the start leaves it, and the call ended the same way.
AsAlone(t, seq) ==
  /\ threads[t].ok = seq.ok
  /\ Deep(heap, Root, heap[threads[t].l.data]) = Deep(seq.h, Root, seq.h[threads[t].l.data])
  /\ Deep(heap, Root, heap[threads[t].r.data]) = Deep(seq.h, Root, seq.h[threads[t].r.data])

\* The function and the slots it dispatches through are as Gen returned them.
StillAs(g) == fn = g.fn /\ structFs = g.fs

\* C16: the steps of a call change neither the function nor the slots it
\* dispatches through; and when two goroutines have called the same
\* function side by side on two pairs of values that share no memory, then,
\* however their steps were interleaved, each pair is as a call on that
\* pair alone leaves it.
C16_DisjointCalls ==
  pc = "parallel" =>
    /\ \E ro \in ParRoots : ro[1] = i.typ /\ StillAs(Gen(i, ro[2]))
    /\ (Done(1) /\ Done(2)) =>
         \A t \in {1, 2} :
           AsAlone(t, Executor(fn, structFs, pre, threads[t].l, threads[t].r, FALSE))

\* Two calls on *SL that have both returned, each having made steps while
\* the other was inside its call: the first merged a slice of one foo into
\* an empty one (a swap), the second added two foo.
C16_Witness ==
  /\ pc = "parallel" /\ i.typ = "*SL" /\ Done(1) /\ Done(2)
  /\ threads[1].met /\ threads[2].met /\ threads[1].ok /\ threads[2].ok
  /\ Deep(pre, Root, pre[threads[1].l.data]) = << <<>> >>
  /\ Deep(heap, Root, heap[threads[1].l.data]) = << << <<5, 5>> >> >>
  /\ Deep(heap, Root, heap[threads[2].l.data]) = << << <<10, 10>> >> >>

\* The path has an empty segment: a leading '>', a trailing '>' or '>>'.
EmptySegment(p) ==
  \/ Head(p) = ">"
  \/ p[Len(p)] = ">"
  \/ \E j \in 1..(Len(p) - 1) : p[j] = ">" /\ p[j + 1] = ">"

\* C17: Gen fails whenever one of the skip paths it is given has an empty
\* segment, whatever the fields before that segment are.
C17_EmptySegmentFails ==
  (OnPointer /\ \E p \in Skips : EmptySegment(p)) => Refused

\* The genStruct calls that built the closures of the plan f, as pairs of
\* the type and the skips the call was made with, in the order of the plan.
RECURSIVE Built(_)
RECURSIVE BuiltFields(_, _)
Built(f) ==
  IF f.k \in {"ptr", "array", "slice", "map"} THEN Built(f.f)
  ELSE IF f.k = "struct" THEN <<[typ |-> f.typ, skips |-> f.skips]>> \o BuiltFields(f.offsetFs, 1)
  ELSE <<>>

BuiltFields(offsetFs, j) ==
  IF j > Len(offsetFs) THEN <<>> ELSE Built(offsetFs[j].f) \o BuiltFields(offsetFs, j + 1)

\* No element occurs twice in the sequence.
NoRepeat(seq) == \A a, b \in DOMAIN seq : seq[a] = seq[b] => a = b

\* C18: in the plan Gen returns no two struct closures were built by
\* genStruct for the same type with the same residual skips, whether the
\* skips are empty or not.
C18_BuiltOnce == (OnPointer /\ pc # "failed") => NoRepeat(Built(fn.f))

\* The calls and updates the struct closure of the root makes on the two
\* arguments, in the order it makes them.
StructCalls ==
  PrimFrames(fn.f.prims, 1, Loc(argL.data), Loc(argR.data))
  \o OffsetFrames(fn.f.offsetFs, Loc(argL.data), Loc(argR.data))

\* The field of the root an update of the struct closure is made on.
Updated(fr) == fr.l.p[Len(fr.l.p)]

\* The size in bytes of a value of a numeric kind (int and uint are as wide
\* as a pointer: eight bytes, and never less than four).
Size(kind) ==
  CASE kind \in {"Bool", "Int8", "Uint8"} -> 1
    [] kind \in {"Int16", "Uint16"} -> 2
    [] kind \in {"Int32", "Uint32", "Float32"} -> 4
    [] kind \in {"Int", "Int64", "Uint", "Uint64", "Float64", "Complex64"} -> 8
    [] kind = "Complex128" -> 16
    [] OTHER -> 0

\* The groups of the stated order: booleans, signed integers, unsigned
\* integers, floats, complex numbers, and the fields merged by a closure.
Class(kind) ==
  CASE kind = "Bool" -> 0
    [] Signed(kind) -> 1
    [] kind \in {"Uint", "Uint8", "Uint16", "Uint32", "Uint64"} -> 2
    [] kind \in {"Float32", "Float64"} -> 3
    [] kind \in {"Complex64", "Complex128"} -> 4
    [] OTHER -> 5

\* Field x may be updated before field y in the stated order (a uintptr
\* field is left out: the order does not place it).
InOrder(x, y) ==
  LET kx == Types[RootField(x).typ].kind
      ky == Types[RootField(y).typ].kind
  IN \/ kx = "Uintptr" \/ ky = "Uintptr"
     \/ Class(kx) < Class(ky)
     \/ Class(kx) = Class(ky) /\ Class(kx) = 5 /\ x < y
     \/ Class(kx) = Class(ky) /\ Class(kx) < 5 /\ Size(kx) < Size(ky)
     \/ kx = ky /\ Class(kx) < 5 /\ x < y

\* Every update comes before the updates that follow it in the stated order.
Ordered(frs) ==
  \A a, b \in DOMAIN frs : a < b => InOrder(Updated(frs[a]), Updated(frs[b]))

\* C19 as stated: a call on a root struct updates the boolean fields first,
\* then the signed integers from the narrowest to the widest, then the
\* unsigned integers likewise, then the floats, then the complex numbers,
\* and after them the fields merged by a closure in the order they are
\* declared.
C19_AscendingWidth == (Merging /\ fn.f.k = "struct") => Ordered(StructCalls)

\* The place of a field's kind in the order of the struct closure: the
\* fifteen offset lists, then offsetFs.
Pos(kind) ==
  IF kind \in Range(StructPrims) THEN CHOOSE n \in DOMAIN StructPrims : StructPrims[n] = kind
  ELSE Len(StructPrims) + 1

\* Field x is updated before field y by the struct closure.
InCodeOrder(x, y) ==
  LET px == Pos(Types[RootField(x).typ].kind)
      py == Pos(Types[RootField(y).typ].kind)
  IN px < py \/ (px = py /\ x < y)

\* The updates are made in the order of the struct closure.
CodeOrdered(frs) ==
  \A a, b \in DOMAIN frs : a < b => InCodeOrder(Updated(frs[a]), Updated(frs[b]))

\* C19: a call on a root struct updates the boolean fields first, then the
\* fields of kind int, int8, int16, int32 and int64 in this order of the
\* kinds, then uint, uint8, uint16, uint32 and uint64, then float32 and
\* float64, then complex64 and complex128, the fields of one kind in the
\* order they are declared; and after all of them the fields merged by a
\* closure (uintptr fields among them) in the order they are declared.
C19_UpdateOrder ==
  (Merging /\ fn.f.k = "struct") =>
    /\ CodeOrdered(StructCalls)
    /\ \A j \in RootFields :
         Dropped(Skips, RootField(j).name) \/ Empty(RootField(j).typ, Residual(Skips, RootField(j).name))
           \/ \E a \in DOMAIN StructCalls : Updated(StructCalls[a]) = j

\* A call on two W has returned: the int field b was updated before the
\* int8 field a, and both sums are in place.
C19_Witness ==
  /\ Merging /\ i.typ = "*W" /\ ~panicked /\ Skips = {}
  /\ Updated(StructCalls[1]) = 2 /\ Updated(StructCalls[2]) = 1
  /\ LeftBefore = <<127, 5>> /\ RightBefore = <<127, 6>> /\ LeftAfter = <<-2, 11>>

\* C20: a call never calls through a slot of structFs that holds no
\* function.  When the root type holds no map, the call of a nil function is
\* the only panic left to a call that passed the type check; so, for every
\* such type Gen accepts, also one in which a struct type occurs more than
\* once (in itself or in several fields) and one whose repeated struct type
\* has nothing to merge, every call returns.
C20_NoEmptySlotCall ==
  (Merging /\ ~Reaches(Root, Skips, {"Map"})) => ~panicked

\* Field j of the root struct is a map that no path drops and whose values
\* have nothing to merge (an aggregate with no fields, as in a set).
MapOfEmpty(j) ==
  /\ Types[RootField(j).typ].kind = "Map"
  /\ ~Dropped(Skips, RootField(j).name)
  /\ Empty(Types[RootField(j).typ].elem, {})

\* C21: for a map field whose values have nothing to merge Gen succeeds,
\* and a call on two such maps, the left one not nil, returns without a
\* panic, also when the maps share keys: after it the left map has the keys
\* of both maps and the keys both had keep the left value.
C21_SetUnion ==
  (OnPointer /\ c.unsafeMap /\ Types[Root].kind = "Struct" /\ Skips = {}
     /\ \A j \in RootFields : MapOfEmpty(j)) =>
    /\ pc # "failed" /\ err = ""
    /\ (Merging /\ \A j \in RootFields : LeftBefore[j] # <<>>) =>
         /\ ~panicked
         /\ \A j \in RootFields :
              /\ Keys(LeftAfter[j]) = Keys(LeftBefore[j]) \cup Keys(RightBefore[j])
              /\ \A key \in Keys(LeftBefore[j]) : LeftAfter[j][1][key] = LeftBefore[j][1][key]

\* C22: in one generation a slot of structFs is bound to one struct type:
\* every thunk of the function Gen returns goes through the slot that holds
\* the closure of the thunk's own struct type, also when the struct types
\* met have no name, so no field is merged by the closure of another type.
C22_OneTypePerSlot ==
  (OnPointer /\ pc # "failed") => ~Mistyped(fn.f, structFs)

RECURSIVE Kept(_, _, _, _)
\* At every position of the tree x of type t, the field the path designates
\* has in the tree z the value it has in x: below a pointer that is not
\* nil in x, at every element x has, in the field the first segment names.
Kept(t, path, x, z) ==
  LET typ == Types[t]
      kind == typ.kind
      j == CHOOSE n \in DOMAIN typ.fields : typ.fields[n].name = Head(path)
  IN IF kind = "Ptr" THEN x = <<>> \/ (z # <<>> /\ Kept(typ.elem, path, x[1], z[1]))
     ELSE IF kind \in {"Array", "Slice"}
     THEN \A n \in DOMAIN x : n \in DOMAIN z /\ Kept(typ.elem, path, x[n], z[n])
     ELSE IF Len(path) = 1 THEN z[j] = x[j]
     ELSE Kept(typ.fields[j].typ, SubSeq(path, 3, Len(path)), x[j], z[j])

\* C23: a field that a path of several segments designates is left out of
\* the merge on every pair of values, whatever the lengths of the slices and
\* whichever pointers are nil: at every position of the left value the
\* field holds after a call that returned what it held there before.
C23_DeepSkipUntouched ==
  (Merging /\ ~panicked) =>
    \A p \in Skips :
      (Len(p) > 1 /\ Designates(Root, p)) => Kept(Root, p, LeftBefore, LeftAfter)

\* C24: the merge of a map field whose values have something to merge
\* returns without a panic on every pair of maps, also on a nil left map
\* and a right map with entries, after which the left map has the entries
\* of the right one; and the right map has after the call the keys it had
\* before.
C24_MapMergeCompletes ==
  (Merging /\ c.unsafeMap /\ Types[Root].kind = "Struct") =>
    \A j \in RootFields :
      (MergedField(j, "Map") /\ ~MapOfEmpty(j)) =>
        /\ ~panicked
        /\ LeftBefore[j] = <<>> /\ Keys(RightBefore[j]) # {} => LeftAfter[j] = RightBefore[j]
        /\ Keys(RightAfter[j]) = Keys(RightBefore[j])

====
